---------------------------- MODULE Spec2Model ----------------------------
(***************************************************************************)
(* Model of src/app.py: a FastAPI service over one SQLite table `users`.  *)
(* Four handlers (register_user, verify_password, verify_face,            *)
(* check_user) run concurrently, each on its own sqlite3 connection.      *)
(*                                                                         *)
(* A request is a slot r \in Req.  Slots are numbered in arrival order.   *)
(* A handler is cut into steps at its statements that touch the database: *)
(* the SELECT, the INSERT and the commit.  Everything between two such    *)
(* statements is local to the request and belongs to the step after it;   *)
(* face extraction is a step of its own.                                  *)
(*                                                                         *)
(* Units: a face encoding is a vector of integers in units of 0.05, so a  *)
(* distance of 0.5 is 10 units.                                            *)
(***************************************************************************)
EXTENDS Integers, Sequences, FiniteSets, TLC

\* ------------------------------------------------------------ bounds
\* The number of requests a behaviour holds.
NumReq == 2

Req == 1..NumReq

\* ------------------------------------------------------------ inputs
UserIds == {"alice", "bob"}
Passwords == {"p1", "p2"}
\* The salts bcrypt.gensalt() may draw.
Salts == {"s1", "s2"}

\* Face encodings the extractor can produce (units of 0.05).
E0 == <<0, 0>>
E2 == <<6, 8>>
E3 == <<9, 12>>

\* A faceImage string is the sequence of its comma-separated fields
\* (str.split(',')); the last field is the base64 payload.  A payload is
\* described by what the libraries make of it: whether b64decode accepts it,
\* whether cv2.imdecode yields an image, and the faces found in the image,
\* in detection order.
Payload(b64ok, decodable, faces) ==
    [b64ok |-> b64ok, decodable |-> decodable, faces |-> faces]
DataUri == [meta |-> "data:image/jpeg;base64"]

ImgBadBase64 == << Payload(FALSE, FALSE, << >>) >>
ImgNotAnImage == << DataUri, Payload(TRUE, FALSE, << >>) >>
ImgNoFace == << DataUri, Payload(TRUE, TRUE, << >>) >>
ImgA == << Payload(TRUE, TRUE, << E0 >>) >>
ImgB == << DataUri, Payload(TRUE, TRUE, << E2 >>) >>
ImgTwo == << Payload(TRUE, TRUE, << E3, E0 >>) >>

Images == {ImgBadBase64, ImgNotAnImage, ImgNoFace, ImgA, ImgB, ImgTwo}

\* ------------------------------------------------------------ helpers
\* Python's None, one value for each type it stands in for.
NoEncoding == << >>
NoRow == [id |-> 0]
NoRequest == [kind |-> "none"]
NoResponse == [status |-> 0]

\* get_face_encoding_from_base64: the payload is the field after the last
\* comma; a b64decode exception, an undecodable image or an image without a
\* face all give None; otherwise the first detected face's encoding.
get_face_encoding_from_base64(base64_image) ==
    LET payload == base64_image[Len(base64_image)]
    IN  IF ~payload.b64ok THEN NoEncoding
        ELSE IF ~payload.decodable THEN NoEncoding
        ELSE IF Len(payload.faces) > 0 THEN payload.faces[1]
        ELSE NoEncoding

\* bcrypt.hashpw(password, salt): the hash carries its salt; the digest is a
\* one-way function of salt and password, injective in the password (the pair
\* stands for its value; only equality of digests is ever used).
hashpw(password, salt) ==
    [salt |-> salt, digest |-> <<salt, password>>]

\* Mutant: the password is rehashed with a salt of its own, not the stored one.
checkpw_FreshSalt(password, hashed) ==
    hashpw(password, "s1") = hashed

\* bcrypt.checkpw(password, hashed): rehash with the salt of `hashed`.
checkpw(password, hashed) ==
    hashpw(password, hashed.salt) = hashed

\* json.dumps(face_encoding.tolist()): the text, as a sequence of tokens.
RECURSIVE DumpItems(_)
DumpItems(v) ==
    IF Len(v) = 0 THEN << >>
    ELSE IF Len(v) = 1 THEN << [t |-> "num", v |-> v[1]] >>
    ELSE << [t |-> "num", v |-> v[1]], [t |-> ","] >> \o DumpItems(Tail(v))

json_dumps(v) == << [t |-> "["] >> \o DumpItems(v) \o << [t |-> "]"] >>

\* json.loads: the numbers between the brackets, in order.
RECURSIVE LoadItems(_)
LoadItems(toks) ==
    IF Len(toks) = 0 THEN << >>
    ELSE IF toks[1].t = "num" THEN << toks[1].v >> \o LoadItems(Tail(toks))
    ELSE LoadItems(Tail(toks))

json_loads(text) == LoadItems(SubSeq(text, 2, Len(text) - 1))

\* face_recognition.face_distance: Euclidean norm of the difference.
RECURSIVE SumSq(_, _)
SumSq(a, b) ==
    IF Len(a) = 0 THEN 0
    ELSE (a[1] - b[1]) * (a[1] - b[1]) + SumSq(Tail(a), Tail(b))

Sqrt(n) == CHOOSE x \in 0..n : x * x = n

face_distance(known, candidate) == Sqrt(SumSq(known, candidate))

\* tolerance=0.5, in units of 0.05
Tolerance == 10

\* Mutant: a distance equal to the tolerance is no match.
compare_faces_Strict(known, candidate) ==
    face_distance(known, candidate) < Tolerance

\* face_recognition.compare_faces: distance <= tolerance.
compare_faces(known, candidate) == face_distance(known, candidate) <= Tolerance

\* ------------------------------------------------------------ state
VARIABLES
    users,   \* the committed rows of table users, in insertion order
    lock,    \* the request whose connection holds the write lock, or 0
    pc,      \* each request's position in its handler
    req,     \* each request's body
    conn,    \* each request's connection: "none", "open", "closed"
    pending, \* the row each request's open transaction has inserted
    resp     \* each request's response

vars == <<users, lock, pc, req, conn, pending, resp>>

\* SELECT ... FROM users WHERE user_id = ? ; fetchone()
SelectRow(table, user_id) ==
    IF \E i \in 1..Len(table) : table[i].user_id = user_id
    THEN table[CHOOSE i \in 1..Len(table) : table[i].user_id = user_id]
    ELSE NoRow

\* Mutant: the column is not declared UNIQUE.
UniqueViolation_Off(table, user_id) == FALSE

\* user_id TEXT UNIQUE NOT NULL: would inserting user_id violate it?
UniqueViolation(table, user_id) ==
    \E i \in 1..Len(table) : table[i].user_id = user_id

\* The row INSERT writes; id INTEGER PRIMARY KEY AUTOINCREMENT.
NewRow(table, user_id, password_hash, face_json) ==
    [id |-> Len(table) + 1, user_id |-> user_id,
     password_hash |-> password_hash, face_encoding |-> face_json]

HTTPException(status_code, detail) == [status |-> status_code, detail |-> detail]
ServerError == [status |-> 500, detail |-> "Internal Server Error"]

Init ==
    /\ users = << >>
    /\ lock = 0
    /\ pc = [r \in Req |-> "idle"]
    /\ req = [r \in Req |-> NoRequest]
    /\ conn = [r \in Req |-> "none"]
    /\ pending = [r \in Req |-> NoRow]
    /\ resp = [r \in Req |-> NoResponse]

\* Requests are numbered in arrival order.
Arrives(r) == pc[r] = "idle" /\ \A q \in Req : q < r => pc[q] # "idle"

Finish(r, response, connection) ==
    /\ pc' = [pc EXCEPT ![r] = "done"]
    /\ resp' = [resp EXCEPT ![r] = response]
    /\ conn' = [conn EXCEPT ![r] = connection]

\* Mutant: the face is extracted before the existence check.
RegisterStart_ExtractFirst(r) ==
    /\ Arrives(r)
    /\ \E u \in UserIds, p \in Passwords, img \in Images :
        /\ req' = [req EXCEPT ![r] = [kind |-> "register_user", userId |-> u,
                                      password |-> p, faceImage |-> img]]
        /\ IF get_face_encoding_from_base64(img) = NoEncoding
           THEN Finish(r, HTTPException(400, "Face not detected"), "closed")
           ELSE IF SelectRow(users, u) # NoRow
           THEN Finish(r, HTTPException(409, "User already exists"), "closed")
           ELSE /\ pc' = [pc EXCEPT ![r] = "extract"]
                /\ conn' = [conn EXCEPT ![r] = "open"]
                /\ resp' = resp
    /\ UNCHANGED <<users, lock, pending>>

\* register_user, lines 89-95: connect, SELECT, 409 if the row exists.
RegisterStart(r) ==
    /\ Arrives(r)
    /\ \E u \in UserIds, p \in Passwords, img \in Images :
        /\ req' = [req EXCEPT ![r] = [kind |-> "register_user", userId |-> u,
                                      password |-> p, faceImage |-> img]]
        /\ IF SelectRow(users, u) # NoRow
           THEN Finish(r, HTTPException(409, "User already exists"), "closed")
           ELSE /\ pc' = [pc EXCEPT ![r] = "extract"]
                /\ conn' = [conn EXCEPT ![r] = "open"]
                /\ resp' = resp
    /\ UNCHANGED <<users, lock, pending>>

\* Mutant: the result of the extraction is not checked.
RegisterExtract_NoCheck(r) ==
    /\ pc[r] = "extract"
    /\ pc' = [pc EXCEPT ![r] = "insert"]
    /\ UNCHANGED <<users, lock, req, pending, conn, resp>>

\* register_user, lines 97-99: extraction; 400 without closing the connection.
RegisterExtract(r) ==
    /\ pc[r] = "extract"
    /\ IF get_face_encoding_from_base64(req[r].faceImage) = NoEncoding
       THEN Finish(r, HTTPException(400, "Face not detected"), conn[r])
       ELSE /\ pc' = [pc EXCEPT ![r] = "insert"]
            /\ UNCHANGED <<conn, resp>>
    /\ UNCHANGED <<users, lock, req, pending>>

\* register_user, lines 101-105: hash the password with a fresh salt, dump the
\* encoding, INSERT.  The INSERT opens a transaction and takes the write
\* lock; the row is pending until the commit.  A UNIQUE violation raises
\* sqlite3.IntegrityError, which no handler catches: the request ends with
\* 500, its connection still open and its transaction still holding the lock.
RegisterInsert(r) ==
    /\ pc[r] = "insert"
    /\ lock \in {0, r}
    /\ lock' = r
    /\ IF UniqueViolation(users, req[r].userId)
       THEN /\ Finish(r, ServerError, conn[r])
            /\ pending' = pending
       ELSE /\ \E salt \in Salts :
                 LET face_encoding == get_face_encoding_from_base64(req[r].faceImage)
                     password_hash == hashpw(req[r].password, salt)
                     face_json == json_dumps(face_encoding)
                 IN  pending' = [pending EXCEPT ![r] =
                        NewRow(users, req[r].userId, password_hash, face_json)]
            /\ pc' = [pc EXCEPT ![r] = "commit"]
            /\ UNCHANGED <<conn, resp>>
    /\ UNCHANGED <<users, req>>

\* register_user, lines 89 and 104: another connection holds the write lock
\* for longer than the connection's busy timeout; the INSERT raises
\* sqlite3.OperationalError (database is locked), uncaught.
RegisterInsertBusy(r) ==
    /\ pc[r] = "insert"
    /\ lock \notin {0, r}
    /\ Finish(r, ServerError, conn[r])
    /\ UNCHANGED <<users, lock, req, pending>>

\* register_user, lines 106-109: commit makes the row visible and releases
\* the lock; close; return success.
RegisterCommit(r) ==
    /\ pc[r] = "commit"
    /\ users' = Append(users, pending[r])
    /\ lock' = 0
    /\ Finish(r, [status |-> 200, success |-> TRUE, message |-> "User registered"],
              "closed")
    /\ UNCHANGED <<req, pending>>

\* A connection left open by a handler that raised is closed when the
\* interpreter releases the handler's frame; closing rolls back its open
\* transaction and releases its lock.
Finalize(r) ==
    /\ pc[r] = "done"
    /\ conn[r] = "open"
    /\ conn' = [conn EXCEPT ![r] = "closed"]
    /\ lock' = IF lock = r THEN 0 ELSE lock
    /\ UNCHANGED <<users, pc, req, pending, resp>>

\* Mutant: a valid password is rehashed with a fresh salt and stored again.
VerifyPassword_Rehash(r) ==
    /\ Arrives(r)
    /\ \E u \in UserIds, p \in Passwords :
        /\ req' = [req EXCEPT ![r] = [kind |-> "verify_password", userId |-> u,
                                      password |-> p]]
        /\ LET row == SelectRow(users, u)
           IN  IF row = NoRow
               THEN /\ Finish(r, HTTPException(404, "User not found"), "closed")
                    /\ users' = users
               ELSE /\ Finish(r, [status |-> 200,
                                  valid |-> checkpw(p, row.password_hash)],
                              "closed")
                    /\ IF checkpw(p, row.password_hash)
                       THEN \E salt \in Salts :
                              users' = [users EXCEPT ![row.id].password_hash =
                                            hashpw(p, salt)]
                       ELSE users' = users
    /\ UNCHANGED <<lock, pending>>

\* verify_password, lines 113-123.
VerifyPassword(r) ==
    /\ Arrives(r)
    /\ \E u \in UserIds, p \in Passwords :
        /\ req' = [req EXCEPT ![r] = [kind |-> "verify_password", userId |-> u,
                                      password |-> p]]
        /\ LET row == SelectRow(users, u)
           IN  IF row = NoRow
               THEN Finish(r, HTTPException(404, "User not found"), "closed")
               ELSE Finish(r, [status |-> 200,
                               valid |-> checkpw(p, row.password_hash)], "closed")
    /\ UNCHANGED <<users, lock, pending>>

\* Mutant: the face is extracted before the row is looked up.
VerifyFace_ExtractFirst(r) ==
    /\ Arrives(r)
    /\ \E u \in UserIds, img \in Images :
        /\ req' = [req EXCEPT ![r] = [kind |-> "verify_face", userId |-> u,
                                      faceImage |-> img]]
        /\ LET row == SelectRow(users, u)
               incoming_encoding == get_face_encoding_from_base64(img)
           IN  IF incoming_encoding = NoEncoding
               THEN Finish(r, HTTPException(400, "Face not detected"), "closed")
               ELSE IF row = NoRow
               THEN Finish(r, HTTPException(404, "User not found"), "closed")
               ELSE LET stored_encoding == json_loads(row.face_encoding)
                    IN  Finish(r,
                               [status |-> 200,
                                verified |-> compare_faces(stored_encoding,
                                                           incoming_encoding),
                                distance |-> face_distance(stored_encoding,
                                                           incoming_encoding)],
                               "closed")
    /\ UNCHANGED <<users, lock, pending>>

\* verify_face, lines 127-148.
VerifyFace(r) ==
    /\ Arrives(r)
    /\ \E u \in UserIds, img \in Images :
        /\ req' = [req EXCEPT ![r] = [kind |-> "verify_face", userId |-> u,
                                      faceImage |-> img]]
        /\ LET row == SelectRow(users, u)
           IN  IF row = NoRow
               THEN Finish(r, HTTPException(404, "User not found"), "closed")
               ELSE LET stored_encoding == json_loads(row.face_encoding)
                        incoming_encoding == get_face_encoding_from_base64(img)
                    IN  IF incoming_encoding = NoEncoding
                        THEN Finish(r, HTTPException(400, "Face not detected"),
                                    "closed")
                        ELSE Finish(r,
                               [status |-> 200,
                                verified |-> compare_faces(stored_encoding,
                                                           incoming_encoding),
                                distance |-> face_distance(stored_encoding,
                                                           incoming_encoding)],
                               "closed")
    /\ UNCHANGED <<users, lock, pending>>

\* Mutant: the test of fetchone() is inverted.
CheckUser_Inverted(r) ==
    /\ Arrives(r)
    /\ \E u \in UserIds :
        /\ req' = [req EXCEPT ![r] = [kind |-> "check_user", userId |-> u]]
        /\ Finish(r, [status |-> 200, exists |-> SelectRow(users, u) = NoRow],
                  "closed")
    /\ UNCHANGED <<users, lock, pending>>

\* check_user, lines 152-157.
CheckUser(r) ==
    /\ Arrives(r)
    /\ \E u \in UserIds :
        /\ req' = [req EXCEPT ![r] = [kind |-> "check_user", userId |-> u]]
        /\ Finish(r, [status |-> 200, exists |-> SelectRow(users, u) # NoRow],
                  "closed")
    /\ UNCHANGED <<users, lock, pending>>

Next ==
    \E r \in Req :
        \/ RegisterStart(r)
        \/ RegisterExtract(r)
        \/ RegisterInsert(r)
        \/ RegisterInsertBusy(r)
        \/ RegisterCommit(r)
        \/ Finalize(r)
        \/ VerifyPassword(r)
        \/ VerifyFace(r)
        \/ CheckUser(r)

Spec == Init /\ [][Next]_vars

\* One request at a time: a handler takes a step only while no other request
\* is inside its handler.  No INSERT then meets a held lock, so
\* RegisterInsertBusy has no part in it.
Alone(r) == \A q \in Req \ {r} : pc[q] \in {"idle", "done"}

SeqNext ==
    \E r \in Req :
        \/ Alone(r) /\ RegisterStart(r)
        \/ Alone(r) /\ RegisterExtract(r)
        \/ Alone(r) /\ RegisterInsert(r)
        \/ Alone(r) /\ RegisterCommit(r)
        \/ Alone(r) /\ VerifyPassword(r)
        \/ Alone(r) /\ VerifyFace(r)
        \/ Alone(r) /\ CheckUser(r)
        \/ Finalize(r)

SeqSpec == Init /\ [][SeqNext]_vars

\* ------------------------------------------------------------ vocabulary
Done(r) == pc[r] = "done"
IsRegister(r) == req[r].kind = "register_user"
Reads == {"verify_password", "verify_face", "check_user"}

\* r is a registration that has returned success.
Succeeded(r) == Done(r) /\ IsRegister(r) /\ resp[r].status = 200

\* u has been successfully registered.
Registered(u) == \E r \in Req : Succeeded(r) /\ req[r].userId = u

\* Request r enters its handler in this step, as a request of kind k.
Handles(r, k) == pc[r] = "idle" /\ pc'[r] # "idle" /\ req'[r].kind = k

RowsOf(u) == {i \in 1..Len(users) : users[i].user_id = u}

Conflict == [status |-> 409, detail |-> "User already exists"]
NotFound == [status |-> 404, detail |-> "User not found"]
BadInput == [status |-> 400, detail |-> "Face not detected"]

HasFace(img) == get_face_encoding_from_base64(img) # NoEncoding

\* ------------------------------------------------------------ C1
\* Under SeqSpec requests run one after the other, in the order of their
\* numbers.
C1_Outcomes ==
    \A r \in Req :
        (Done(r) /\ IsRegister(r)) =>
            LET first == {q \in Req : q < r /\ Succeeded(q)
                                      /\ req[q].userId = req[r].userId}
            IN  /\ first # {} => resp[r] = Conflict
                /\ (first = {} /\ HasFace(req[r].faceImage)) =>
                       resp[r].status = 200

C1_SecondCall ==
    \A r \in Req :
        (Handles(r, "register_user") /\ Registered(req'[r].userId)) =>
            /\ pc'[r] = "done"
            /\ resp'[r] = Conflict
            /\ users' = users

\* C1: called one after the other with the same userId, the first
\* register-user (with a detectable face) succeeds and the second ends with
\* 409 "User already exists" whatever its password and faceImage are, an
\* image without a face included; the table is the same before and after the
\* second call.
C1_RegisterTwice == []C1_Outcomes /\ [][C1_SecondCall]_vars

C1_Witness ==
    \E r1, r2 \in Req :
        /\ r1 < r2
        /\ Succeeded(r1)
        /\ Done(r2) /\ IsRegister(r2)
        /\ req[r2].userId = req[r1].userId
        /\ req[r2].password # req[r1].password
        /\ ~HasFace(req[r2].faceImage)
        /\ resp[r2] = Conflict
        /\ Cardinality(RowsOf(req[r1].userId)) = 1

\* ------------------------------------------------------------ C2
\* C2: in every interleaving of register-user requests with the same userId
\* at most one returns success, and the table never holds two rows with that
\* userId.
C2_AtMostOne ==
    \A u \in UserIds :
        /\ Cardinality({r \in Req : Succeeded(r) /\ req[r].userId = u}) <= 1
        /\ Cardinality(RowsOf(u)) <= 1

\* Two registrations of one userId both passed the existence check; one
\* committed, the other met the row at its INSERT.
C2_Witness ==
    \E r1, r2 \in Req :
        /\ r1 # r2
        /\ Succeeded(r1)
        /\ IsRegister(r2) /\ req[r2].userId = req[r1].userId
        /\ Done(r2) /\ resp[r2].status = 500

\* ------------------------------------------------------------ C3
C3_InsertConflict ==
    \A r \in Req :
        (/\ IsRegister(r) /\ pc[r] = "insert" /\ pc'[r] # "insert"
         /\ lock \in {0, r}
         /\ UniqueViolation(users, req[r].userId)) =>
            (Done(r)' /\ resp'[r] = Conflict)

\* C3: a register-user request whose INSERT finds the userId present ends
\* with 409 "User already exists", also when the row was committed by a
\* concurrent registration after this request's own existence check (so that
\* no registration ends other than with success, 409 or 400).
C3_ConflictAtInsert == [][C3_InsertConflict]_vars

\* ------------------------------------------------------------ C4
C4_Rows ==
    /\ \A i \in 1..Len(users) :
        /\ users[i].user_id \in UserIds
        /\ users[i].face_encoding # json_dumps(NoEncoding)
        /\ \E r \in Req :
            /\ Succeeded(r)
            /\ req[r].userId = users[i].user_id
            /\ checkpw(req[r].password, users[i].password_hash)
            /\ HasFace(req[r].faceImage)
            /\ users[i].face_encoding =
                   json_dumps(get_face_encoding_from_base64(req[r].faceImage))
    /\ \A r \in Req :
        (Done(r) /\ req[r].kind \in Reads /\ resp[r] # NotFound
                 /\ resp[r] # [status |-> 200, exists |-> FALSE]) =>
            Registered(req[r].userId)

C4_FailedRegister ==
    \A r \in Req :
        (IsRegister(r)' /\ ~Done(r) /\ Done(r)' /\ resp'[r].status \in {409, 400}) =>
            users' = users

\* C4: a register-user request that fails with 409 or 400 leaves the table as
\* it was; every stored row has a userId, a password hash and a non-null face
\* encoding written by one successful registration; a reader never finds a
\* row of a userId whose registration has not committed.
C4_FullyFormed == []C4_Rows /\ [][C4_FailedRegister]_vars

\* A registration has inserted its row and not committed; a later check-user
\* of the same userId did not see it.
C4_Witness ==
    \E r1, r2 \in Req :
        /\ pc[r1] = "commit" /\ pending[r1] # NoRow
        /\ Done(r2) /\ req[r2].kind = "check_user"
        /\ req[r2].userId = req[r1].userId
        /\ r1 < r2
        /\ resp[r2] = [status |-> 200, exists |-> FALSE]

\* ------------------------------------------------------------ C5
C5_Step ==
    \A r \in Req :
        Handles(r, "verify_password") =>
            LET u == req'[r].userId
                p == req'[r].password
            IN  IF ~Registered(u)
                THEN resp'[r] = NotFound
                ELSE resp'[r] =
                       [status |-> 200,
                        valid |-> \E q \in Req : /\ Succeeded(q)
                                                 /\ req[q].userId = u
                                                 /\ req[q].password = p]

\* C5: verify-password(userId, p) answers 404 "User not found" if userId has
\* never been successfully registered, {valid: true} if p is the password of
\* its successful registration and {valid: false} for every other p.
C5_VerifyPassword == [][C5_Step]_vars

C5_Witness ==
    \E r1, r2 \in Req :
        /\ Succeeded(r1)
        /\ Done(r2) /\ req[r2].kind = "verify_password"
        /\ req[r2].userId = req[r1].userId
        /\ req[r2].password = req[r1].password
        /\ users[1].password_hash.salt = "s2"
        /\ resp[r2] = [status |-> 200, valid |-> TRUE]

\* ------------------------------------------------------------ C6
C6_Step ==
    \A r \in Req :
        Handles(r, "check_user") =>
            resp'[r] = [status |-> 200, exists |-> Registered(req'[r].userId)]

\* C6: check-user always answers 200, with exists false in every state before
\* a registration of the userId has succeeded and exists true from then on.
C6_CheckUser == [][C6_Step]_vars

C6_Witness ==
    \E r1, r2 \in Req :
        /\ Succeeded(r1)
        /\ Done(r2) /\ req[r2].kind = "check_user"
        /\ req[r2].userId = req[r1].userId
        /\ resp[r2] = [status |-> 200, exists |-> TRUE]

\* ------------------------------------------------------------ C7
C7_Step ==
    \A r \in Req :
        Handles(r, "verify_face") =>
            IF ~Registered(req'[r].userId) THEN resp'[r] = NotFound
            ELSE IF ~HasFace(req'[r].faceImage) THEN resp'[r] = BadInput
            ELSE /\ DOMAIN resp'[r] = {"status", "verified", "distance"}
                 /\ resp'[r].status = 200

\* C7: verify-face answers 404 "User not found" for an unregistered userId
\* whatever the faceImage is, 400 "Face not detected" for a registered userId
\* with an image that yields no encoding, and only otherwise 200 with
\* verified and distance.
C7_VerifyFaceOrder == [][C7_Step]_vars

\* An unregistered userId with an image that yields no encoding: 404.
C7_Witness ==
    \E r \in Req :
        /\ Done(r) /\ req[r].kind = "verify_face"
        /\ ~HasFace(req[r].faceImage)
        /\ resp[r] = NotFound

\* ------------------------------------------------------------ C8
\* C8: in every 200 response of verify-face, verified is true exactly when
\* the distance between the stored and the submitted encoding is at most
\* 0.5; a submitted encoding equal to the stored one gives distance 0 and
\* verified true.
C8_Threshold ==
    \A r, q \in Req :
        (/\ Done(r) /\ req[r].kind = "verify_face" /\ resp[r].status = 200
         /\ Succeeded(q) /\ req[q].userId = req[r].userId) =>
            LET stored == get_face_encoding_from_base64(req[q].faceImage)
                submitted == get_face_encoding_from_base64(req[r].faceImage)
            IN  /\ resp[r].distance * resp[r].distance = SumSq(stored, submitted)
                /\ resp[r].verified <=> (resp[r].distance <= Tolerance)
                /\ stored = submitted =>
                       (resp[r].distance = 0 /\ resp[r].verified)

\* A distance of exactly 0.5 is a match.
C8_Witness ==
    \E r \in Req :
        /\ Done(r) /\ req[r].kind = "verify_face" /\ resp[r].status = 200
        /\ resp[r].distance = Tolerance
        /\ resp[r].verified

\* ------------------------------------------------------------ C9
C9_Step ==
    /\ Len(users') >= Len(users)
    /\ \A i \in 1..Len(users) : users'[i] = users[i]
    /\ \A r \in Req :
        (pc[r] = "idle" /\ pc'[r] # "idle" /\ req'[r].kind \in Reads) =>
            users' = users

\* C9: a stored row is never deleted and never changes; verify-password,
\* verify-face and check-user leave the table unchanged whatever they answer.
C9_CreateOnce == [][C9_Step]_vars

C9_Witness ==
    \E r1, r2 \in Req :
        /\ Succeeded(r1)
        /\ Done(r2) /\ req[r2].kind = "verify_password"
        /\ req[r2].userId = req[r1].userId
        /\ resp[r2] = [status |-> 200, valid |-> TRUE]
        /\ Len(users) = 1
        /\ checkpw(req[r1].password, users[1].password_hash)

\* ------------------------------------------------------------ C10
\* C10: a handler has closed the connection it opened when its response is
\* returned.
C10_ConnectionsClosed ==
    \A r \in Req : Done(r) => conn[r] = "closed"


=============================================================================
